---- MODULE Spec2Model ----
(***************************************************************************)
(* Model of the mail-merge letter generator (src/app.py and                *)
(* src/mailmerge_ui_streamlit_en/app.py).                                  *)
(*                                                                         *)
(* A Python str is a sequence of one-character strings.  A cell value of   *)
(* the dataset is a record [kind, s]: kind "str" with its characters,      *)
(* kind "int" with its decimal digits, or kind "nan" (the missing-cell     *)
(* marker pandas returns for an empty cell).                               *)
(***************************************************************************)
EXTENDS Integers, Sequences, FiniteSets, TLC

(***************************************************************************)
(* Bounds of the model.                                                    *)
(***************************************************************************)
MaxLen == 7
MaxPieces == 5
MaxRows == 3

MaxFields == 2

VARIABLES
    pc,         \* position of the run
    text,       \* a body text handed to replace_placeholders_dynamic
    pattern,    \* a filename pattern handed to format_filename_from_pattern
    row,        \* the row handed to the function under call
    args,       \* the other arguments of a build_letter_docx call
    result,     \* what the call returned
    df,         \* the dataset: the sequence of its rows
    conf,       \* the widgets' values of the script run
    top_banner_file,     \* the uploaded top banner: its bytes and read position
    bottom_banner_file,  \* the uploaded bottom banner
    tpl,        \* the script's variable tpl: the template last selected
    preview,    \* what the preview section produced
    idx,        \* rows of df the generate-all loop has gone through
    created,    \* the script's counter of letters written
    warnings,   \* the st.warning messages: the identifiers of skipped rows
    z           \* the zip archive being written

callVars == <<text, pattern, row, args, result>>
runVars == <<df, conf, top_banner_file, bottom_banner_file, tpl, preview,
             idx, created, warnings, z>>
vars == <<pc, callVars, runVars>>

(***************************************************************************)
(* Strings and values.                                                     *)
(***************************************************************************)
S(v) == [kind |-> "str", s |-> v]
NaN == [kind |-> "nan", s |-> <<>>]
I(digits) == [kind |-> "int", s |-> digits]

\* str(value): the string form Python gives a cell value.
Str(v) == IF v.kind = "nan" THEN <<"n", "a", "n">> ELSE v.s

\* pd.isna(value)
isna(v) == v.kind = "nan"

IsSpace(c) == c \in {" ", "\n", "\r", "\t"}

RECURSIVE lstrip(_)
lstrip(s) ==
    IF s # <<>> /\ IsSpace(Head(s)) THEN lstrip(Tail(s)) ELSE s

RECURSIVE rstrip(_)
rstrip(s) ==
    IF s # <<>> /\ IsSpace(s[Len(s)]) THEN rstrip(SubSeq(s, 1, Len(s) - 1)) ELSE s

\* str.strip()
strip(s) == rstrip(lstrip(s))

\* str.lower() on the letters of the model's alphabet
LowerChar(c) ==
    CASE c = "D" -> "d"
      [] c = "O" -> "o"
      [] c = "C" -> "c"
      [] c = "X" -> "x"
      [] c = "A" -> "a"
      [] OTHER -> c

lower(s) == [i \in 1..Len(s) |-> LowerChar(s[i])]

\* str.endswith(suffix)
endswith(s, suffix) ==
    /\ Len(s) >= Len(suffix)
    /\ SubSeq(s, Len(s) - Len(suffix) + 1, Len(s)) = suffix

\* dict.get(key, "") of a row
RowGet(r, key) == IF key \in DOMAIN r THEN r[key] ELSE S(<<>>)

RECURSIVE Flatten(_)
Flatten(ss) == IF ss = <<>> THEN <<>> ELSE Head(ss) \o Flatten(Tail(ss))

(***************************************************************************)
(* replace_placeholders_dynamic: re.sub(r"\{\{([^}]+)\}\}", repl, text).   *)
(***************************************************************************)
\* The index of the first "}" at or after p, or 0.
RECURSIVE FirstClose(_, _)
FirstClose(t, p) ==
    IF p > Len(t) THEN 0
    ELSE IF t[p] = "}" THEN p
    ELSE FirstClose(t, p + 1)

\* The regular expression tried at index i: "{{", one or more characters
\* other than "}", then "}}".  Returns the index of the first closing brace,
\* or 0 when there is no match starting at i.
MatchAt(t, i) ==
    IF i + 1 <= Len(t) /\ t[i] = "{" /\ t[i + 1] = "{"
    THEN LET j == FirstClose(t, i + 2)
         IN  IF j > i + 2 /\ j + 1 <= Len(t) /\ t[j + 1] = "}" THEN j ELSE 0
    ELSE 0

\* repl with the key looked up as written, not trimmed.
repl_untrimmed(group1, r) ==
    IF group1 \notin DOMAIN r THEN <<>> ELSE Str(RowGet(r, group1))

\* repl(m): the text a matched token is replaced by.
repl(group1, r) ==
    LET key == strip(group1)
    IN  IF key \notin DOMAIN r THEN <<>> ELSE Str(RowGet(r, key))

\* re.sub scanning from index i: leftmost matches, not overlapping, the
\* replacement is not scanned again.
RECURSIVE ReSubFrom(_, _, _)
ReSubFrom(t, r, i) ==
    IF i > Len(t) THEN <<>>
    ELSE LET j == MatchAt(t, i)
         IN  IF j # 0
             THEN repl(SubSeq(t, i + 2, j - 1), r) \o ReSubFrom(t, r, j + 2)
             ELSE <<t[i]>> \o ReSubFrom(t, r, i + 1)

replace_placeholders_dynamic(t, r) == ReSubFrom(t, r, 1)

(***************************************************************************)
(* format_filename_from_pattern and sanitize_filename.                     *)
(***************************************************************************)
\* The outcome of a call that may raise: the value returned, or raised.
Returned(s) == [raised |-> FALSE, s |-> s]
Raised == [raised |-> TRUE, s |-> <<>>]

Prepend(s, outcome) ==
    IF outcome.raised THEN Raised ELSE Returned(s \o outcome.s)

IsDigit(c) == c \in {"0", "1", "2", "3", "4", "5", "6", "7", "8", "9"}

\* The index of the first "." or "[" of a field name, or Len + 1.
RECURSIVE FirstPartEnd(_, _)
FirstPartEnd(f, p) ==
    IF p > Len(f) THEN p
    ELSE IF f[p] \in {".", "["} THEN p
    ELSE FirstPartEnd(f, p + 1)

\* SafeDict.__missing__: a key the row lacks reads as "".
SafeDictGet(r, key) == IF key \in DOMAIN r THEN r[key] ELSE S(<<>>)

\* str.format_map's lookup of one replacement field (no conversion, no
\* format specification): the part before the first "." or "[" is the key;
\* an empty or all-digit key is a positional field, which format_map
\* refuses (ValueError); what follows the key is an attribute or index
\* lookup on the value, and no cell value (str, float, int) has an
\* attribute of a name the model's alphabet can spell (AttributeError).
get_field(f, r) ==
    LET e == FirstPartEnd(f, 1)
        first == SubSeq(f, 1, e - 1)
    IN  IF first = <<>> \/ \A i \in 1..Len(first) : IsDigit(first[i])
        THEN Raised
        ELSE IF e <= Len(f)
        THEN Raised
        ELSE Returned(Str(SafeDictGet(r, first)))

\* The index of the "}" that ends the field starting at p, or 0 when a "{"
\* or the end of the string comes first (ValueError).
RECURSIVE FieldEnd(_, _)
FieldEnd(p, i) ==
    IF i > Len(p) THEN 0
    ELSE IF p[i] = "{" THEN 0
    ELSE IF p[i] = "}" THEN i
    ELSE FieldEnd(p, i + 1)

\* pattern.format_map(SafeDict(row)) from index i: "{{" and "}}" are literal
\* braces, a single "}" or a trailing "{" raises ValueError.
RECURSIVE FormatFrom(_, _, _)
FormatFrom(p, r, i) ==
    IF i > Len(p) THEN Returned(<<>>)
    ELSE IF p[i] = "{"
    THEN IF i = Len(p) THEN Raised
         ELSE IF p[i + 1] = "{" THEN Prepend(<<"{">>, FormatFrom(p, r, i + 2))
         ELSE LET e == FieldEnd(p, i + 1)
              IN  IF e = 0 THEN Raised
                  ELSE LET f == get_field(SubSeq(p, i + 1, e - 1), r)
                       IN  IF f.raised THEN Raised
                           ELSE Prepend(f.s, FormatFrom(p, r, e + 1))
    ELSE IF p[i] = "}"
    THEN IF i < Len(p) /\ p[i + 1] = "}"
         THEN Prepend(<<"}">>, FormatFrom(p, r, i + 2))
         ELSE Raised
    ELSE Prepend(<<p[i]>>, FormatFrom(p, r, i + 1))

format_map(p, r) == FormatFrom(p, r, 1)

\* The character class [\\/*?:"<>|]
Reserved == {"\\", "/", "*", "?", ":", "\"", "<", ">", "|"}

RECURSIVE SkipReserved(_)
SkipReserved(s) ==
    IF s # <<>> /\ Head(s) \in Reserved THEN SkipReserved(Tail(s)) ELSE s

\* The substitution without the + of the pattern: one underscore for each
\* reserved character.
SubReserved_per_char(s) ==
    [i \in 1..Len(s) |-> IF s[i] \in Reserved THEN "_" ELSE s[i]]

\* re.sub(r'[\\/*?:"<>|]+', "_", name): each maximal run of reserved
\* characters becomes one underscore.
RECURSIVE SubReserved(_)
SubReserved(s) ==
    IF s = <<>> THEN <<>>
    ELSE IF Head(s) \in Reserved THEN <<"_">> \o SubReserved(SkipReserved(s))
    ELSE <<Head(s)>> \o SubReserved(Tail(s))

letter == <<"l", "e", "t", "t", "e", "r">>
docx == <<".", "d", "o", "c", "x">>

\* sanitize_filename without the fallback basename.
sanitize_filename_no_fallback(name) == strip(SubReserved(name))

sanitize_filename(name) ==
    LET n == strip(SubReserved(name))
    IN  IF n = <<>> THEN letter ELSE n

\* format_filename_from_pattern testing for the suffix case-sensitively.
format_filename_case_sensitive(p, r) ==
    LET f == format_map(p, r)
        name == sanitize_filename(IF f.raised THEN letter ELSE f.s)
    IN  IF ~endswith(name, docx) THEN name \o docx ELSE name

format_filename_from_pattern(p, r) ==
    LET f == format_map(p, r)
        name == sanitize_filename(IF f.raised THEN letter ELSE f.s)
    IN  IF ~endswith(lower(name), docx) THEN name \o docx ELSE name

(***************************************************************************)
(* Lengths.  python-docx lengths are integers in EMU.  A length in inches  *)
(* (a Python float in the source) is an integer count of hundredths of an  *)
(* inch: every slider of the script steps by a multiple of 0.05 inch.      *)
(***************************************************************************)
EMU_PER_INCH == 914400

\* docx.shared.Inches(x): int(x * 914400)
Inches(h) == (h * EMU_PER_INCH) \div 100

\* float(length) / EMU_PER_INCH
InInches(emu) == (emu * 100) \div EMU_PER_INCH

\* A margin or header/footer distance assigned to a section is written to
\* the document in twips (635 EMU), rounded, and read back from there.
StoredLength(emu) == ((2 * emu + 635) \div 1270) * 635

\* The one section of Document(): python-docx's default template (Letter
\* page, 1.25 in side margins, 1 in top and bottom, 0.5 in distances).
DefaultSection ==
    [ page_width |-> 7772400,
      left_margin |-> 1143000, right_margin |-> 1143000,
      top_margin |-> 914400, bottom_margin |-> 914400,
      header_distance |-> 457200, footer_distance |-> 457200 ]

\* Document(): one section, header, footer and body without content.
Document ==
    [sect |-> DefaultSection, header |-> <<>>, footer |-> <<>>, body |-> <<>>]

\* The page width less the side margins, taken for the page width.
page_width_less_margins(sect) ==
    InInches(sect.page_width - sect.left_margin - sect.right_margin)

page_width_in(sect) == InInches(sect.page_width)

\* The usable width without the margins taken off.
content_width_ignoring_margins(sect) == InInches(sect.page_width)

content_width_in(sect) ==
    InInches(sect.page_width - sect.left_margin - sect.right_margin)

set_section_margins(sect, left_in, right_in, top_in, bottom_in) ==
    [sect EXCEPT !.left_margin = StoredLength(Inches(left_in)),
                 !.right_margin = StoredLength(Inches(right_in)),
                 !.top_margin = StoredLength(Inches(top_in)),
                 !.bottom_margin = StoredLength(Inches(bottom_in))]

set_distances(sect, header_in, footer_in) ==
    [sect EXCEPT !.header_distance = StoredLength(Inches(header_in)),
                 !.footer_distance = StoredLength(Inches(footer_in))]

(***************************************************************************)
(* Banners.  A bytes argument is None or a payload, possibly empty.        *)
(***************************************************************************)
None == [given |-> FALSE, data |-> <<>>]
Bytes(data) == [given |-> TRUE, data |-> data]

\* What a step that may raise leaves: the document, or raised.
Done(doc) == [raised |-> FALSE, doc |-> doc]
DocRaised == [raised |-> TRUE, doc |-> Document]

\* The pictures of a region with the fallback file tested before the bytes.
RegionPictures_file_first(bytes, path_exists, width_in) ==
    IF path_exists
    THEN [raised |-> FALSE,
          pics |-> <<[source |-> "file", data |-> <<>>,
                      width |-> Inches(width_in)]>>]
    ELSE IF bytes.given
    THEN IF bytes.data = <<>>
         THEN [raised |-> TRUE, pics |-> <<>>]
         ELSE [raised |-> FALSE,
               pics |-> <<[source |-> "bytes", data |-> bytes.data,
                           width |-> Inches(width_in)]>>]
    ELSE [raised |-> FALSE, pics |-> <<>>]

\* The pictures one region gets: the bytes when given (add_picture raises
\* UnrecognizedImageError on a payload that is no image, as the empty one),
\* else the fallback file when it exists, else nothing.
RegionPictures(bytes, path_exists, width_in) ==
    IF bytes.given
    THEN IF bytes.data = <<>>
         THEN [raised |-> TRUE, pics |-> <<>>]
         ELSE [raised |-> FALSE,
               pics |-> <<[source |-> "bytes", data |-> bytes.data,
                           width |-> Inches(width_in)]>>]
    ELSE IF path_exists
    THEN [raised |-> FALSE,
          pics |-> <<[source |-> "file", data |-> <<>>,
                      width |-> Inches(width_in)]>>]
    ELSE [raised |-> FALSE, pics |-> <<>>]

\* The header, then the footer; the first add_picture that raises ends it.
InsertBanners(doc, q, width_in) ==
    LET h == RegionPictures(q.top_banner_bytes, q.top_exists, width_in)
        f == RegionPictures(q.bottom_banner_bytes, q.bottom_exists, width_in)
    IN  IF h.raised \/ f.raised THEN DocRaised
        ELSE Done([doc EXCEPT !.header = @ \o h.pics, !.footer = @ \o f.pics])

\* src/app.py
add_fullwidth_banners(doc, q) ==
    LET sect == set_distances(doc.sect, 0, 0)
    IN  InsertBanners([doc EXCEPT !.sect = sect], q, page_width_in(sect))

\* src/mailmerge_ui_streamlit_en/app.py
add_banner_to_header_footer(doc, q) ==
    LET sect == doc.sect
        orig_left == InInches(sect.left_margin)
        orig_right == InInches(sect.right_margin)
        orig_top == InInches(sect.top_margin)
        orig_bottom == InInches(sect.bottom_margin)
        orig_header_dist == InInches(sect.header_distance)
        orig_footer_dist == InInches(sect.footer_distance)
        zeroed == set_distances(set_section_margins(sect, 0, 0, 0, 0), 0, 0)
        during == IF q.edge_to_edge THEN zeroed ELSE sect
        width_in == IF q.edge_to_edge THEN page_width_in(during)
                    ELSE content_width_in(during)
        banners == InsertBanners([doc EXCEPT !.sect = during], q, width_in)
        after ==
            IF q.edge_to_edge
            THEN set_distances(
                     set_section_margins(during, q.text_margin_in,
                         q.text_margin_in, q.text_margin_in, q.text_margin_in),
                     0, 0)
            ELSE set_distances(
                     set_section_margins(during, orig_left, orig_right,
                         orig_top, orig_bottom),
                     orig_header_dist, orig_footer_dist)
    IN  IF banners.raised THEN DocRaised
        ELSE Done([banners.doc EXCEPT !.sect = after])

(***************************************************************************)
(* The body of a letter.                                                   *)
(***************************************************************************)
add_ltr_paragraph(doc, t, font_name, font_size_pt, bold) ==
    [doc EXCEPT !.body = Append(@,
        [text |-> t, bold |-> bold, font_name |-> font_name,
         font_size |-> font_size_pt, alignment |-> "LEFT"])]

\* doc.add_paragraph(""): a paragraph without a run.
add_paragraph(doc) ==
    [doc EXCEPT !.body = Append(@,
        [text |-> <<>>, bold |-> FALSE, font_name |-> "",
         font_size |-> 0, alignment |-> "default"])]

\* The index of the first line break at or after p, or 0.
RECURSIVE FirstBreak(_, _)
FirstBreak(t, p) ==
    IF p > Len(t) THEN 0
    ELSE IF t[p] \in {"\n", "\r"} THEN p
    ELSE FirstBreak(t, p + 1)

\* The text split at its line breaks as str.split splits at a separator:
\* an empty last piece follows a line break that ends the text.
RECURSIVE splitlines_keep_last(_)
splitlines_keep_last(t) ==
    LET b == FirstBreak(t, 1)
    IN  IF b = 0 THEN <<t>>
        ELSE LET skip == IF t[b] = "\r" /\ b < Len(t) /\ t[b + 1] = "\n"
                         THEN b + 1 ELSE b
             IN  <<SubSeq(t, 1, b - 1)>>
                    \o splitlines_keep_last(SubSeq(t, skip + 1, Len(t)))

\* str.splitlines(): "\n", "\r" and "\r\n" end a line; no line follows the
\* last line break.
RECURSIVE splitlines(_)
splitlines(t) ==
    LET b == FirstBreak(t, 1)
    IN  IF t = <<>> THEN <<>>
        ELSE IF b = 0 THEN <<t>>
        ELSE LET skip == IF t[b] = "\r" /\ b < Len(t) /\ t[b + 1] = "\n"
                         THEN b + 1 ELSE b
             IN  <<SubSeq(t, 1, b - 1)>>
                    \o splitlines(SubSeq(t, skip + 1, Len(t)))

\* The header fields without the test for a missing cell.
RECURSIVE AddHeaderFields_no_isna(_, _, _, _)
AddHeaderFields_no_isna(doc, r, fields, q) ==
    IF fields = <<>> THEN doc
    ELSE AddHeaderFields_no_isna(
             add_ltr_paragraph(doc, Str(RowGet(r, Head(fields))), q.font_name,
                               q.font_size_pt, FALSE),
             r, Tail(fields), q)

\* for col in ordered_fields: one paragraph of the row's value, blank for a
\* missing cell.
RECURSIVE AddHeaderFields(_, _, _, _)
AddHeaderFields(doc, r, fields, q) ==
    IF fields = <<>> THEN doc
    ELSE LET val == RowGet(r, Head(fields))
             shown == IF isna(val) THEN S(<<>>) ELSE val
         IN  AddHeaderFields(
                 add_ltr_paragraph(doc, Str(shown), q.font_name,
                                   q.font_size_pt, FALSE),
                 r, Tail(fields), q)

\* for line in body_filled.splitlines(): one paragraph per line.
RECURSIVE AddLines(_, _, _)
AddLines(doc, lines, q) ==
    IF lines = <<>> THEN doc
    ELSE AddLines(
             add_ltr_paragraph(doc, Head(lines), q.font_name,
                               q.font_size_pt, FALSE),
             Tail(lines), q)

\* Lines 107-119 of src/app.py: salutation, header fields, spacer, body.
LetterBody(doc, r, q) ==
    LET greeted == add_ltr_paragraph(doc, q.salutation, q.font_name,
                                     q.font_size_pt, TRUE)
        headed == AddHeaderFields(greeted, r, q.ordered_fields, q)
        spaced == add_paragraph(headed)
        body_filled == replace_placeholders_dynamic(q.body_template, r)
    IN  AddLines(spaced, splitlines(body_filled), q)

\* What build_letter_docx returns: the saved document (its bytes are the
\* document as composed) and the resolved body text, or raised.
Letter(doc, r, q) ==
    [ raised |-> FALSE, content |-> doc,
      body_filled |-> replace_placeholders_dynamic(q.body_template, r) ]
LetterRaised == [raised |-> TRUE, content |-> Document, body_filled |-> <<>>]

\* src/app.py
build_letter_docx(r, q) ==
    LET doc == [Document EXCEPT !.sect =
                   set_section_margins(@, q.margins_in.left, q.margins_in.right,
                                       q.margins_in.top, q.margins_in.bottom)]
        banners == add_fullwidth_banners(doc, q)
    IN  IF banners.raised THEN LetterRaised
        ELSE Letter(LetterBody(banners.doc, r, q), r, q)

\* src/mailmerge_ui_streamlit_en/app.py
build_letter_docx_en(r, q) ==
    LET banners == add_banner_to_header_footer(Document, q)
    IN  IF banners.raised THEN LetterRaised
        ELSE Letter(LetterBody(banners.doc, r, q), r, q)

\* The script's call, of the variant the run is of.
BuildLetter(r, q) ==
    IF q.variant = "app" THEN build_letter_docx(r, q)
    ELSE build_letter_docx_en(r, q)

(***************************************************************************)
(* The inputs of the calls.                                                *)
(***************************************************************************)
col_a == <<"a">>

\* Rows over the one column "a": the column absent, a string, a missing
\* cell, a string with a reserved character and trailing whitespace, a
\* number.
Rows ==
    { <<>>,
      [k \in {col_a} |-> S(<<"v">>)],
      [k \in {col_a} |-> NaN],
      [k \in {col_a} |-> S(<<"/", " ">>)],
      [k \in {col_a} |-> I(<<"7">>)] }

TextAlphabet == {"{", "}", "a", " "}
Texts == UNION {[1..n -> TextAlphabet] : n \in 0..MaxLen}

Pieces == { <<"{">>, <<"}">>, <<"a">>, <<" ">>, <<"/">>,
            docx, <<".", "D", "O", "C", "X">> }
Patterns == {Flatten(ps) : ps \in UNION {[1..n -> Pieces] : n \in 0..MaxPieces}}

col_b == <<"b">>
col_c == <<"c">>

\* Rows over the columns "a" and "b" for a letter.
LetterRows ==
    { [k \in {col_a} |-> S(<<"v">>)],
      [k \in {col_a, col_b} |-> IF k = col_a THEN S(<<"v">>) ELSE NaN],
      [k \in {col_a, col_b} |-> IF k = col_a THEN NaN ELSE I(<<"7">>)] }

\* Header-field lists: "c" is no column of any row.
FieldLists == UNION {[1..n -> {col_a, col_b, col_c}] : n \in 0..MaxFields}

BodyTemplates ==
    { <<>>,
      <<"{", "{", "a", "}", "}", "\n", "\n", "{", "{", " ", "b", "}", "}">>,
      <<"x", "\n">>,
      <<"{", "{", "b", "}", "}", "\r", "\n", "x", "\n", "\n">> }

MarginChoices ==
    { [left |-> 25, right |-> 50, top |-> 35, bottom |-> 100],
      [left |-> 125, right |-> 125, top |-> 100, bottom |-> 100],
      [left |-> 200, right |-> 25, top |-> 10, bottom |-> 200] }

TextMargins == {25, 100, 125}

\* The layout arguments of the two variants of the script.
Layouts ==
    { [variant |-> "app", margins_in |-> m, edge_to_edge |-> TRUE,
       text_margin_in |-> 100] : m \in MarginChoices }
    \cup
    { [variant |-> "en", margins_in |-> [left |-> 100, right |-> 100,
                                         top |-> 100, bottom |-> 100],
       edge_to_edge |-> e, text_margin_in |-> t] :
        e \in BOOLEAN, t \in TextMargins }

LetterArgs(layout, fields, body, top, bottom, top_exists, bottom_exists) ==
    [ variant |-> layout.variant,
      margins_in |-> layout.margins_in,
      edge_to_edge |-> layout.edge_to_edge,
      text_margin_in |-> layout.text_margin_in,
      salutation |-> <<"T", "o", ",">>,
      ordered_fields |-> fields,
      body_template |-> body,
      font_name |-> "Arial",
      font_size_pt |-> 12,
      top_banner_bytes |-> top,
      bottom_banner_bytes |-> bottom,
      top_exists |-> top_exists,
      bottom_exists |-> bottom_exists ]

NoArgs == LetterArgs(CHOOSE l \in Layouts : l.variant = "app", <<>>, <<>>,
                     None, None, FALSE, FALSE)

(***************************************************************************)
(* Calls of the pure functions.                                            *)
(***************************************************************************)
\* The script run's variables, where no script runs.
NoRun ==
    /\ df = <<>>
    /\ conf = <<>>
    /\ top_banner_file = <<>>
    /\ bottom_banner_file = <<>>
    /\ tpl = <<>>
    /\ preview = <<>>
    /\ idx = 0
    /\ created = 0
    /\ warnings = <<>>
    /\ z = <<>>

InitResolve ==
    /\ pc = "call"
    /\ text \in Texts
    /\ row \in Rows
    /\ pattern = <<>>
    /\ args = NoArgs
    /\ result = <<>>
    /\ NoRun

CallResolve ==
    /\ pc = "call"
    /\ result' = replace_placeholders_dynamic(text, row)
    /\ pc' = "returned"
    /\ UNCHANGED <<text, pattern, row, args, runVars>>

SpecResolve == InitResolve /\ [][CallResolve]_vars

InitFilename ==
    /\ pc = "call"
    /\ pattern \in Patterns
    /\ row \in Rows
    /\ text = <<>>
    /\ args = NoArgs
    /\ result = <<>>
    /\ NoRun

CallFilename ==
    /\ pc = "call"
    /\ result' = format_filename_from_pattern(pattern, row)
    /\ pc' = "returned"
    /\ UNCHANGED <<text, pattern, row, args, runVars>>

SpecFilename == InitFilename /\ [][CallFilename]_vars

\* Names given to sanitize_filename: reserved characters, a letter, a space.
NameAlphabet == {"/", "*", "a", " "}
Names == UNION {[1..n -> NameAlphabet] : n \in 0..MaxLen}

InitSanitize ==
    /\ pc = "call"
    /\ text \in Names
    /\ pattern = <<>>
    /\ row = <<>>
    /\ args = NoArgs
    /\ result = <<>>
    /\ NoRun

CallSanitize ==
    /\ pc = "call"
    /\ result' = sanitize_filename(text)
    /\ pc' = "returned"
    /\ UNCHANGED <<text, pattern, row, args, runVars>>

SpecSanitize == InitSanitize /\ [][CallSanitize]_vars

InitCompose ==
    /\ pc = "call"
    /\ row \in LetterRows
    /\ \E layout \in Layouts, fields \in FieldLists, body \in BodyTemplates,
          top \in {None, Bytes(<<"top">>), Bytes(<<>>)},
          bottom \in {None, Bytes(<<"bottom">>)},
          top_exists \in BOOLEAN, bottom_exists \in BOOLEAN :
            args = LetterArgs(layout, fields, body, top, bottom,
                              top_exists, bottom_exists)
    /\ text = <<>>
    /\ pattern = <<>>
    /\ result = <<>>
    /\ NoRun

\* build_letter_docx of src/app.py
CallBuildLetter ==
    /\ pc = "call"
    /\ args.variant = "app"
    /\ result' = build_letter_docx(row, args)
    /\ pc' = "returned"
    /\ UNCHANGED <<text, pattern, row, args, runVars>>

\* build_letter_docx of src/mailmerge_ui_streamlit_en/app.py
CallBuildLetterEn ==
    /\ pc = "call"
    /\ args.variant = "en"
    /\ result' = build_letter_docx_en(row, args)
    /\ pc' = "returned"
    /\ UNCHANGED <<text, pattern, row, args, runVars>>

SpecCompose == InitCompose /\ [][CallBuildLetter \/ CallBuildLetterEn]_vars

(***************************************************************************)
(* The script run: the preview section, then the generate-all section.     *)
(***************************************************************************)
\* An uploaded file is a stream over its bytes (an io.BytesIO).
NoFile == [given |-> FALSE, data |-> <<>>, pos |-> 0]
Uploaded(data) == [given |-> TRUE, data |-> data, pos |-> 0]

\* f.read(): the bytes from the read position to the end.
read(f) == SubSeq(f.data, f.pos + 1, Len(f.data))

\* (f.read() if f else None), and the file after it.
ReadArg(f) == IF f.given THEN Bytes(read(f)) ELSE None
AfterRead(f) == IF f.given THEN [f EXCEPT !.pos = Len(f.data)] ELSE f

\* Group dispatch with the green label tested before the blue one.
Dispatch_green_first(gval, q) ==
    IF gval = Str(q.green_value) THEN "green"
    ELSE IF gval = Str(q.blue_value) THEN "blue"
    ELSE IF gval = Str(q.yellow_value) THEN "yellow"
    ELSE "none"

\* The if / elif chain over the three labels; "none" is its else branch.
Dispatch(gval, q) ==
    IF gval = Str(q.blue_value) THEN "blue"
    ELSE IF gval = Str(q.green_value) THEN "green"
    ELSE IF gval = Str(q.yellow_value) THEN "yellow"
    ELSE "none"

Template(q, name) ==
    CASE name = "blue" -> q.tpl_blue
      [] name = "green" -> q.tpl_green
      [] name = "yellow" -> q.tpl_yellow

\* The keyword arguments of the script's build_letter_docx calls.
CallArgs(q, body_template, top, bottom) ==
    LetterArgs(q.layout, q.header_fields, body_template, top, bottom,
               q.top_exists, q.bottom_exists)

\* zipfile.ZipFile: filelist holds one entry per write; NameToInfo maps a
\* name to its entry, and a name written again keeps its earlier entry in
\* filelist while NameToInfo moves to the new one.
ZipFile == [filelist |-> <<>>, NameToInfo |-> <<>>]

\* z.writestr replacing the entry that has the same name.
writestr_overwrite(zf, name, data) ==
    IF name \in DOMAIN zf.NameToInfo
    THEN [zf EXCEPT !.filelist[zf.NameToInfo[name]] =
                        [filename |-> name, data |-> data]]
    ELSE [ filelist |-> Append(zf.filelist, [filename |-> name, data |-> data]),
           NameToInfo |->
               [n \in DOMAIN zf.NameToInfo \cup {name} |->
                   IF n = name THEN Len(zf.filelist) + 1
                   ELSE zf.NameToInfo[n]] ]

writestr(zf, name, data) ==
    [ filelist |-> Append(zf.filelist, [filename |-> name, data |-> data]),
      NameToInfo |->
          [n \in DOMAIN zf.NameToInfo \cup {name} |->
              IF n = name THEN Len(zf.filelist) + 1 ELSE zf.NameToInfo[n]] ]

\* z.read(name)
ZipRead(zf, name) == zf.filelist[zf.NameToInfo[name]].data

\* The columns of the datasets: the group column and "FullName".
Group == <<"G">>
FullName == <<"F">>

BatchRow(g, f) == [k \in {Group, FullName} |-> IF k = Group THEN g ELSE f]

BatchRows ==
    { BatchRow(S(<<"x">>), S(<<"m">>)),
      BatchRow(S(<<"x">>), S(<<"n">>)),
      BatchRow(S(<<"y">>), S(<<"m">>)),
      BatchRow(NaN, S(<<"n">>)) }

Datasets == UNION {[1..n -> BatchRows] : n \in 0..MaxRows}

\* blue_value, green_value, yellow_value
LabelChoices ==
    { <<S(<<"x">>), S(<<"y">>), S(<<"q">>)>>,
      <<S(<<"x">>), S(<<"x">>), S(<<"y">>)>>,
      <<S(<<"n", "a", "n">>), S(<<"y">>), S(<<"y">>)>> }

FilenamePatterns ==
    { <<"{", "F", "}">>, <<"{", "G", "}">>, <<"{">> }

RunLayouts ==
    { [variant |-> "app", edge_to_edge |-> TRUE, text_margin_in |-> 100,
       margins_in |-> [left |-> 100, right |-> 100, top |-> 35, bottom |-> 100]],
      [variant |-> "en", edge_to_edge |-> TRUE, text_margin_in |-> 100,
       margins_in |-> [left |-> 100, right |-> 100, top |-> 100, bottom |-> 100]] }

Conf(loaded, layout, labels, filename_pattern) ==
    [ loaded |-> loaded,
      layout |-> layout,
      group_col |-> Group,
      blue_value |-> labels[1],
      green_value |-> labels[2],
      yellow_value |-> labels[3],
      tpl_blue |-> <<"B", "{", "{", "F", "}", "}">>,
      tpl_green |-> <<"G", "{", "{", "F", "}", "}">>,
      tpl_yellow |-> <<"Y", "{", "{", "F", "}", "}">>,
      header_fields |-> <<FullName>>,
      filename_pattern |-> filename_pattern,
      top_exists |-> FALSE,
      bottom_exists |-> TRUE ]

NoCall ==
    /\ text = <<>>
    /\ pattern = <<>>
    /\ args = NoArgs
    /\ result = <<>>

Init ==
    /\ pc = "start"
    /\ \/ /\ df \in Datasets
          /\ \E layout \in RunLayouts, labels \in LabelChoices,
                filename_pattern \in FilenamePatterns :
                conf = Conf(TRUE, layout, labels, filename_pattern)
          /\ top_banner_file \in {NoFile, Uploaded(<<"top">>)}
       \/ /\ df = <<>>
          /\ conf = Conf(FALSE, CHOOSE l \in RunLayouts : l.variant = "app",
                         CHOOSE l \in LabelChoices : l[1] # l[2] /\ l[2] # l[3],
                         <<"{", "F", "}">>)
          /\ top_banner_file = NoFile
    /\ bottom_banner_file = NoFile
    /\ row = <<>>
    /\ tpl = <<>>
    /\ preview = <<>>
    /\ idx = 0
    /\ created = 0
    /\ warnings = <<>>
    /\ z = ZipFile
    /\ NoCall

\* Section 4 of the script, run whenever a dataset is loaded: the picked
\* row's letter, with the blue template when no label matches.  df.iloc of
\* an empty dataset raises IndexError.
Preview ==
    /\ pc = "start"
    /\ conf.loaded
    /\ \/ /\ df = <<>>
          /\ pc' = "preview_raised"
          /\ UNCHANGED <<row, tpl, args, preview, top_banner_file,
                         bottom_banner_file>>
       \/ \E pick \in 1..Len(df) :
            LET r == df[pick]
                gval == Str(RowGet(r, conf.group_col))
                name == Dispatch(gval, conf)
                t == IF name = "none" THEN conf.tpl_blue ELSE Template(conf, name)
                file_name == format_filename_from_pattern(conf.filename_pattern, r)
                kwargs == CallArgs(conf, t, ReadArg(top_banner_file),
                                   ReadArg(bottom_banner_file))
                built == BuildLetter(r, kwargs)
            IN  /\ row' = r
                /\ tpl' = t
                /\ args' = kwargs
                /\ top_banner_file' = AfterRead(top_banner_file)
                /\ bottom_banner_file' = AfterRead(bottom_banner_file)
                /\ preview' = IF built.raised THEN <<>>
                              ELSE [file_name |-> file_name,
                                    content |-> built.content,
                                    body_filled |-> built.body_filled]
                /\ pc' = IF built.raised THEN "preview_raised" ELSE "previewed"
    /\ UNCHANGED <<df, conf, idx, created, warnings, z, text, pattern, result>>

\* The run ends with the button not pressed.
EndRun ==
    /\ pc = "previewed"
    /\ pc' = "idle"
    /\ UNCHANGED <<callVars, runVars>>

\* The button pressed with no dataset loaded: st.error and st.stop.
GenerateNoData ==
    /\ pc = "start"
    /\ ~conf.loaded
    /\ pc' = "stopped"
    /\ UNCHANGED <<callVars, runVars>>

\* The button pressed: the archive is opened and the counter reset.  (The
\* group column is one of the dataset's columns, being selected from them.)
Generate ==
    /\ pc = "previewed"
    /\ pc' = "batch"
    /\ z' = ZipFile
    /\ created' = 0
    /\ idx' = 0
    /\ UNCHANGED <<callVars, df, conf, top_banner_file, bottom_banner_file,
                   tpl, preview, warnings>>

\* A row whose group value equals no label: skipped with a warning.
BatchSkip_break ==
    /\ pc = "batch"
    /\ idx < Len(df)
    /\ LET r == df[idx + 1]
           gval == Str(RowGet(r, conf.group_col))
       IN  /\ Dispatch(gval, conf) = "none"
           /\ row' = r
           /\ warnings' = Append(warnings, Str(RowGet(r, FullName)))
    /\ pc' = "done"
    /\ idx' = idx + 1
    /\ UNCHANGED <<text, pattern, args, result, df, conf, top_banner_file,
                   bottom_banner_file, tpl, preview, created, z>>

BatchSkip ==
    /\ pc = "batch"
    /\ idx < Len(df)
    /\ LET r == df[idx + 1]
           gval == Str(RowGet(r, conf.group_col))
       IN  /\ Dispatch(gval, conf) = "none"
           /\ row' = r
           /\ warnings' = Append(warnings, Str(RowGet(r, FullName)))
    /\ idx' = idx + 1
    /\ UNCHANGED <<pc, text, pattern, args, result, df, conf, top_banner_file,
                   bottom_banner_file, tpl, preview, created, z>>

\* A row whose group value equals a label: its letter is composed and
\* written; an exception of build_letter_docx ends the run.
BatchWrite ==
    /\ pc = "batch"
    /\ idx < Len(df)
    /\ LET r == df[idx + 1]
           gval == Str(RowGet(r, conf.group_col))
           name == Dispatch(gval, conf)
       IN  /\ name # "none"
           /\ LET t == Template(conf, name)
                  file_name == format_filename_from_pattern(conf.filename_pattern, r)
                  kwargs == CallArgs(conf, t, ReadArg(top_banner_file),
                                     ReadArg(bottom_banner_file))
                  built == BuildLetter(r, kwargs)
              IN  /\ row' = r
                  /\ tpl' = t
                  /\ args' = kwargs
                  /\ top_banner_file' = AfterRead(top_banner_file)
                  /\ bottom_banner_file' = AfterRead(bottom_banner_file)
                  /\ \/ /\ ~built.raised
                        /\ z' = writestr(z, file_name, built.content)
                        /\ created' = created + 1
                        /\ idx' = idx + 1
                        /\ pc' = pc
                     \/ /\ built.raised
                        /\ pc' = "batch_raised"
                        /\ UNCHANGED <<z, created, idx>>
    /\ UNCHANGED <<text, pattern, result, df, conf, preview, warnings>>

\* The loop is over: the archive is closed and offered with the count.
BatchEnd ==
    /\ pc = "batch"
    /\ idx = Len(df)
    /\ pc' = "done"
    /\ UNCHANGED <<callVars, runVars>>

Next ==
    \/ Preview
    \/ EndRun
    \/ GenerateNoData
    \/ Generate
    \/ BatchSkip
    \/ BatchWrite
    \/ BatchEnd

Spec == Init /\ [][Next]_vars

(***************************************************************************)
(* Properties of replace_placeholders_dynamic (SpecResolve).               *)
(***************************************************************************)
Min(set) == CHOOSE x \in set : \A y \in set : x <= y
Max(set) == CHOOSE x \in set : \A y \in set : x >= y

\* The spans <<i, j>> of t that have the shape {{k}}: "{{" at i, "}}" at j,
\* and between them a non-empty k without "}".
TokenSpans(t) ==
    { sp \in (1..Len(t)) \X (1..Len(t)) :
        /\ sp[1] + 2 < sp[2]
        /\ sp[2] + 1 <= Len(t)
        /\ t[sp[1]] = "{" /\ t[sp[1] + 1] = "{"
        /\ t[sp[2]] = "}" /\ t[sp[2] + 1] = "}"
        /\ \A q \in (sp[1] + 2)..(sp[2] - 1) : t[q] # "}" }

\* Of the spans that end at the same "}}", the token is the longest one.
Tokens(t) ==
    { sp \in TokenSpans(t) :
        \A other \in TokenSpans(t) : other[2] = sp[2] => sp[1] <= other[1] }

\* k with its surrounding whitespace removed.
Trimmed(k) ==
    LET solid == {q \in 1..Len(k) : ~IsSpace(k[q])}
    IN  IF solid = {} THEN <<>> ELSE SubSeq(k, Min(solid), Max(solid))

TokenKey(t, sp) == Trimmed(SubSeq(t, sp[1] + 2, sp[2] - 1))

\* The text with every token replaced by Render(r, key) when the key is a
\* column of the row and by nothing otherwise, all else kept.
Resolved(t, r, Render(_, _)) ==
    Flatten([q \in 1..Len(t) |->
        IF \E sp \in Tokens(t) : sp[1] = q
        THEN LET sp == CHOOSE x \in Tokens(t) : x[1] = q
                 key == TokenKey(t, sp)
             IN  IF key \in DOMAIN r THEN Render(r, key) ELSE <<>>
        ELSE IF \E sp \in Tokens(t) : sp[1] < q /\ q <= sp[2] + 1
        THEN <<>>
        ELSE <<t[q]>>])

RenderStr(r, key) == Str(r[key])

\* What the header-field block shows for a column: a missing cell is blank.
RenderHeader(r, key) == IF isna(r[key]) THEN <<>> ELSE Str(r[key])

\* C3: replace_placeholders_dynamic replaces every {{k}} token by
\* str(row[k']) when the trimmed key k' is a column of the row and by the
\* empty string otherwise, and keeps everything else verbatim.
C3_TokensReplaced ==
    pc = "returned" => result = Resolved(text, row, RenderStr)

\* A call whose text holds a token with whitespace before its key, the key
\* a column of the row, and a character outside any token.
C3_Witness ==
    /\ pc = "returned"
    /\ \E sp \in Tokens(text) :
        /\ TokenKey(text, sp) \in DOMAIN row
        /\ TokenKey(text, sp) # SubSeq(text, sp[1] + 2, sp[2] - 1)
        /\ (sp[1] > 1 \/ sp[2] + 1 < Len(text))
    /\ result # text

\* C4: a token whose column holds a missing cell is replaced by the empty
\* string, as the header-field block renders it.
C4_MissingCellBlank ==
    pc = "returned" => result = Resolved(text, row, RenderHeader)

(***************************************************************************)
(* Properties of format_filename_from_pattern (SpecFilename).              *)
(***************************************************************************)
NoReserved(s) == \A i \in 1..Len(s) : s[i] \notin Reserved

Count(s, c) == Cardinality({i \in 1..Len(s) : s[i] = c})

\* The name after substitution and sanitization, before the suffix.
SanitizedName(p, r) ==
    LET f == format_map(p, r)
    IN  sanitize_filename(IF f.raised THEN letter ELSE f.s)

\* C5: the filename ends with ".docx" (compared case-insensitively), the
\* suffix is appended only when the sanitized name does not already end
\* with it, and the filename holds no reserved character.
C5_SuffixOnceNoReserved ==
    pc = "returned" =>
        /\ endswith(lower(result), docx)
        /\ NoReserved(result)
        /\ LET n == SanitizedName(pattern, row)
           IN  /\ endswith(lower(n), docx) => result = n
               /\ ~endswith(lower(n), docx) => result = n \o docx

\* A pattern with a reserved character that ends with the suffix in upper
\* case: the name is sanitized and no second suffix is appended.
C5_Witness ==
    /\ pc = "returned"
    /\ ~NoReserved(pattern)
    /\ endswith(pattern, <<".", "D", "O", "C", "X">>)
    /\ Len(result) = Len(pattern)
    /\ result # pattern

\* C6: a malformed pattern (format_map raises, as for a lone "{"), a name
\* that is empty after substitution, sanitization and trimming, and the
\* empty pattern all yield "letter.docx".
C6_FallbackBasename ==
    pc = "returned" =>
        LET f == format_map(pattern, row)
        IN  /\ f.raised => result = letter \o docx
            /\ (Count(pattern, "{") = 1 /\ Count(pattern, "}") = 0)
                  => result = letter \o docx
            /\ (~f.raised /\ strip(SubReserved(f.s)) = <<>>)
                  => result = letter \o docx
            /\ pattern = <<>> => result = letter \o docx

\* A malformed pattern: one opening brace that is never closed.
C6_Witness ==
    /\ pc = "returned"
    /\ Count(pattern, "{") = 1 /\ Count(pattern, "}") = 0
    /\ Len(pattern) > 1
    /\ format_map(pattern, row).raised
    /\ result = letter \o docx

\* C7: in a pattern whose only braces are those of one token {k}, with k a
\* field name that is no column of the row, the token is replaced by the
\* empty string and the rest of the pattern is formatted as usual.
C7_UnknownFieldEmpty ==
    pc = "returned" =>
        \A i, j \in 1..Len(pattern) :
            ( /\ i < j
              /\ pattern[i] = "{" /\ pattern[j] = "}"
              /\ Count(pattern, "{") = 1 /\ Count(pattern, "}") = 1
              /\ i + 1 < j
              /\ SubSeq(pattern, i + 1, j - 1) \notin DOMAIN row )
            => result = format_filename_from_pattern(
                            SubSeq(pattern, 1, i - 1)
                                \o SubSeq(pattern, j + 1, Len(pattern)),
                            row)

(***************************************************************************)
(* Properties of build_letter_docx (SpecCompose).                          *)
(***************************************************************************)
\* What the header block shows for a column of the list.
HeaderText(r, col) ==
    IF col \notin DOMAIN r THEN <<>>
    ELSE IF r[col].kind = "nan" THEN <<>>
    ELSE Str(r[col])

IsSpacer(par) == par.text = <<>> /\ ~par.bold /\ par.font_name = ""

\* C8: the body of a letter is one bold salutation paragraph, then one
\* non-bold paragraph per entry of the header-field list in the list's
\* order (a column listed twice is rendered twice, an absent or missing
\* value as the empty string), then one blank spacer paragraph, then the
\* body-line paragraphs.
C8_ParagraphOrder ==
    (pc = "returned" /\ ~result.raised) =>
        LET body == result.content.body
            fields == args.ordered_fields
            n == Len(fields)
            lines == splitlines(result.body_filled)
        IN  /\ Len(body) = 1 + n + 1 + Len(lines)
            /\ body[1].text = args.salutation /\ body[1].bold
            /\ \A i \in 1..n :
                /\ body[1 + i].text = HeaderText(row, fields[i])
                /\ ~body[1 + i].bold
                /\ body[1 + i].font_name = args.font_name
            /\ IsSpacer(body[n + 2])
            /\ \A i \in 1..Len(lines) :
                /\ body[n + 2 + i].text = lines[i]
                /\ ~body[n + 2 + i].bold
                /\ body[n + 2 + i].font_name = args.font_name

\* A letter whose header-field list names the same column twice, the
\* column holding a missing cell, and whose body has lines.
C8_Witness ==
    /\ pc = "returned"
    /\ ~result.raised
    /\ Len(args.ordered_fields) = 2
    /\ args.ordered_fields[1] = args.ordered_fields[2]
    /\ args.ordered_fields[1] \in DOMAIN row
    /\ isna(row[args.ordered_fields[1]])
    /\ Len(result.content.body) > 4

CallerMargins(q) ==
    IF q.variant = "app" THEN q.margins_in
    ELSE [left |-> q.text_margin_in, right |-> q.text_margin_in,
          top |-> q.text_margin_in, bottom |-> q.text_margin_in]

\* C9: after composing in edge-to-edge mode every inserted banner is as
\* wide as the page, the four margins are the caller's, whatever the blank
\* document's were, and the header and footer distances are zero.
C9_EdgeToEdge ==
    (pc = "returned" /\ ~result.raised /\ args.edge_to_edge) =>
        LET doc == result.content
            sect == doc.sect
            m == CallerMargins(args)
        IN  /\ \A i \in 1..Len(doc.header) : doc.header[i].width = sect.page_width
            /\ \A i \in 1..Len(doc.footer) : doc.footer[i].width = sect.page_width
            /\ sect.left_margin * 100 = m.left * EMU_PER_INCH
            /\ sect.right_margin * 100 = m.right * EMU_PER_INCH
            /\ sect.top_margin * 100 = m.top * EMU_PER_INCH
            /\ sect.bottom_margin * 100 = m.bottom * EMU_PER_INCH
            /\ sect.header_distance = 0
            /\ sect.footer_distance = 0

\* An edge-to-edge letter of the second variant with both banners and
\* margins that differ from the blank document's.
C9_Witness ==
    /\ pc = "returned"
    /\ ~result.raised
    /\ args.variant = "en"
    /\ args.edge_to_edge
    /\ Len(result.content.header) = 1
    /\ Len(result.content.footer) = 1
    /\ result.content.sect.left_margin # DefaultSection.left_margin
    /\ result.content.sect.top_margin # DefaultSection.top_margin

(***************************************************************************)
(* Properties of the script run (Spec).                                    *)
(***************************************************************************)
InBatch == pc \in {"batch", "batch_raised", "done"}

Labels == <<Str(conf.blue_value), Str(conf.green_value), Str(conf.yellow_value)>>
Templates == <<conf.tpl_blue, conf.tpl_green, conf.tpl_yellow>>

GroupValue(r) == Str(IF conf.group_col \in DOMAIN r THEN r[conf.group_col]
                     ELSE S(<<>>))

\* The number of the first label, in the order blue, green, yellow, that
\* the row's group value equals, or 0.
FirstMatch(r) ==
    LET m == {i \in 1..3 : Labels[i] = GroupValue(r)}
    IN  IF m = {} THEN 0 ELSE Min(m)

\* The rows among the first k of the dataset that match no label.
Unmatched(k) == {i \in 1..k : FirstMatch(df[i]) = 0}

\* The indexes among 1..k that are not in the set, in increasing order.
RECURSIVE Others(_, _)
Others(k, set) ==
    IF k = 0 THEN <<>>
    ELSE IF k \in set THEN Others(k - 1, set)
    ELSE Append(Others(k - 1, set), k)

\* The indexes among 1..k that are in the set, in increasing order.
Those(k, set) == Others(k, (1..k) \ set)

\* C1: after any prefix of k rows, letters created + rows skipped = k; an
\* unmatched row never ends the run; on completion of a dataset of N rows
\* with M unmatched, the count is N - M, M identifiers have been reported
\* and the archive holds N - M entries.
C1_BatchCounts ==
    /\ InBatch =>
        /\ created + Len(warnings) = idx
        /\ Len(warnings) = Cardinality(Unmatched(idx))
        /\ Len(z.filelist) = created
    /\ pc = "batch_raised" => (idx + 1) \notin Unmatched(Len(df))
    /\ pc = "done" =>
        /\ idx = Len(df)
        /\ created = Len(df) - Cardinality(Unmatched(Len(df)))
        /\ Len(warnings) = Cardinality(Unmatched(Len(df)))
        /\ Len(z.filelist) = Len(df) - Cardinality(Unmatched(Len(df)))

\* A completed batch in which an unmatched row came before a matched one.
C1_Witness ==
    /\ pc = "done"
    /\ \E i, j \in 1..Len(df) :
        i < j /\ i \in Unmatched(Len(df)) /\ j \notin Unmatched(Len(df))
    /\ created >= 1
    /\ Len(warnings) >= 1

\* The letter body the template of label number i gives a row.
BodyOf(r, i) ==
    LetterBody(Document, r, CallArgs(conf, Templates[i], None, None)).body

\* C2: the template is that of the first label, in the order blue, green,
\* yellow, equal to the string form of the row's group value.  With no
\* label equal, the preview takes the blue template and still produces a
\* letter; the batch records the row as skipped and composes nothing.
C2_GroupDispatch ==
    /\ pc = "previewed" =>
        LET i == FirstMatch(row)
        IN  /\ tpl = Templates[IF i = 0 THEN 1 ELSE i]
            /\ preview.content.body = BodyOf(row, IF i = 0 THEN 1 ELSE i)
            /\ preview.body_filled = replace_placeholders_dynamic(tpl, row)
    /\ pc = "preview_raised" => df = <<>>
    /\ InBatch =>
        LET matched == Others(idx, Unmatched(idx))
            skipped == Those(idx, Unmatched(idx))
        IN  /\ Len(z.filelist) = Len(matched)
            /\ \A j \in 1..Len(matched) :
                z.filelist[j].data.body
                    = BodyOf(df[matched[j]], FirstMatch(df[matched[j]]))
            /\ Len(warnings) = Len(skipped)
            /\ \A j \in 1..Len(skipped) :
                warnings[j] = Str(df[skipped[j]][FullName])

\* Two of the labels are equal and a row of that group has been written,
\* and a row that matches no label has been previewed and then skipped.
C2_Witness ==
    /\ pc = "done"
    /\ Labels[1] = Labels[2]
    /\ \E i \in 1..Len(df) : GroupValue(df[i]) = Labels[1]
    /\ Unmatched(Len(df)) # {}
    /\ preview.content.body = BodyOf(df[Min(Unmatched(Len(df)))], 1)

\* The rows, in order, whose letters were written under the name.
WrittenAs(name) ==
    Those(Len(df),
          {i \in 1..Len(df) :
              /\ FirstMatch(df[i]) # 0
              /\ format_filename_from_pattern(conf.filename_pattern, df[i]) = name})

EntriesNamed(name) ==
    Those(Len(z.filelist),
          {j \in 1..Len(z.filelist) : z.filelist[j].filename = name})

\* C10 as stated: after the batch the archive holds a single entry under
\* each name, with the letter of the last row that produced the name.
C10_SingleEntryPerName ==
    pc = "done" =>
        \A j \in 1..Len(z.filelist) :
            LET name == z.filelist[j].filename
                rows == WrittenAs(name)
            IN  /\ Len(EntriesNamed(name)) = 1
                /\ z.filelist[j].data.body
                      = BodyOf(df[rows[Len(rows)]], FirstMatch(df[rows[Len(rows)]]))

\* C10 as the code has it: filenames are not deduplicated and nothing is
\* overwritten; the archive keeps one entry per written row, in row order,
\* also under a name written before, and reading the archive by name
\* gives the letter of the last row that produced the name.
C10_DuplicateEntriesKept ==
    pc = "done" =>
        \A j \in 1..Len(z.filelist) :
            LET name == z.filelist[j].filename
                rows == WrittenAs(name)
                entries == EntriesNamed(name)
            IN  /\ Len(entries) = Len(rows)
                /\ \A k \in 1..Len(entries) :
                    z.filelist[entries[k]].data.body
                        = BodyOf(df[rows[k]], FirstMatch(df[rows[k]]))
                /\ ZipRead(z, name).body
                      = BodyOf(df[rows[Len(rows)]], FirstMatch(df[rows[Len(rows)]]))

\* A completed batch with two entries of the same name and different
\* letters.
C10_Witness ==
    /\ pc = "done"
    /\ \E i, j \in 1..Len(z.filelist) :
        /\ i < j
        /\ z.filelist[i].filename = z.filelist[j].filename
        /\ z.filelist[i].data # z.filelist[j].data
        /\ ZipRead(z, z.filelist[i].filename) = z.filelist[j].data

(***************************************************************************)
(* Properties of sanitize_filename (SpecSanitize).                         *)
(***************************************************************************)
\* Every reserved character of s replaced by an underscore of its own.
EachReplaced(s) ==
    [i \in 1..Len(s) |-> IF s[i] \in Reserved THEN "_" ELSE s[i]]

\* Position i of s continues a run of reserved characters.
ContinuesRun(s, i) == i > 1 /\ s[i] \in Reserved /\ s[i - 1] \in Reserved

\* One underscore for each maximal run of reserved characters of s, from
\* position i on: the positions that continue a run give nothing.
RECURSIVE RunsReplacedFrom(_, _)
RunsReplacedFrom(s, i) ==
    IF i > Len(s) THEN <<>>
    ELSE (IF ContinuesRun(s, i) THEN <<>> ELSE <<EachReplaced(s)[i]>>)
         \o RunsReplacedFrom(s, i + 1)

RunsReplaced(s) == RunsReplacedFrom(s, 1)

OrLetter(n) == IF n = <<>> THEN letter ELSE n

\* C11 (as claimed): sanitize_filename replaces each reserved character by
\* one underscore, so that a run of n reserved characters becomes n
\* underscores, leaves the other characters unchanged and then trims the
\* surrounding whitespace.
C11_UnderscorePerCharacter ==
    pc = "returned" => result = OrLetter(strip(EachReplaced(text)))

\* C11 (as the code has it): sanitize_filename replaces each maximal run of
\* reserved characters by ONE underscore, leaves every other character
\* unchanged, then trims the surrounding whitespace (and gives "letter"
\* for a name that is then empty).
C11_UnderscorePerRun ==
    pc = "returned" => result = OrLetter(strip(RunsReplaced(text)))

\* A name with a run of two reserved characters between two letters has
\* been sanitized: the run has become a single underscore.
C11_Witness ==
    /\ pc = "returned"
    /\ text = <<"a", "/", "*", "a">>
    /\ result = <<"a", "_", "a">>

(***************************************************************************)
(* Properties of the body lines of a letter (SpecCompose).                 *)
(***************************************************************************)
\* Position i of t holds a line break: "\r\n" is one break, at its "\n".
IsBreak(t, i) ==
    \/ t[i] = "\n"
    \/ t[i] = "\r" /\ ~(i < Len(t) /\ t[i + 1] = "\n")

Breaks(t) == {i \in 1..Len(t) : IsBreak(t, i)}

\* The k-th break of t in text order; position 0 for k = 0 and the
\* position past the end for the one after the last.
BreakAt(t, k) ==
    IF k = 0 THEN 0
    ELSE IF k > Cardinality(Breaks(t)) THEN Len(t) + 1
    ELSE CHOOSE i \in Breaks(t) :
            Cardinality({j \in Breaks(t) : j < i}) = k - 1

\* The text between two positions that hold breaks, without the "\r" of a
\* "\r\n" that ends it.
Between(t, from, to) ==
    LET last == IF to <= Len(t) /\ to > 1 /\ t[to] = "\n" /\ t[to - 1] = "\r"
                THEN to - 2 ELSE to - 1
    IN  SubSeq(t, from + 1, last)

\* The pieces of t between its line breaks: one more than it has breaks.
SplitOnBreaks(t) ==
    [k \in 1..(Cardinality(Breaks(t)) + 1) |->
        Between(t, BreakAt(t, k - 1), BreakAt(t, k))]

\* The lines of t: its pieces, without the empty piece that follows a line
\* break at the very end of the text (and none for the empty text).
TerminatedLines(t) ==
    LET pieces == SplitOnBreaks(t)
    IN  IF pieces[Len(pieces)] = <<>>
        THEN SubSeq(pieces, 1, Len(pieces) - 1) ELSE pieces

\* The texts of the paragraphs that follow the spacer paragraph.
BodyLineTexts(q, content) ==
    LET first == Len(q.ordered_fields) + 3
    IN  [i \in 1..(Len(content.body) - first + 1) |->
            content.body[first + i - 1].text]

\* C12 (as claimed): the resolved body text is split on line breaks and
\* there is one paragraph per line, blank lines at the end of the text
\* included: the i-th body paragraph is the i-th piece of the split.  (The
\* empty text, which has no line, is left aside.)
C12_ParagraphPerPiece ==
    (pc = "returned" /\ ~result.raised /\ result.body_filled # <<>>) =>
        BodyLineTexts(args, result.content) = SplitOnBreaks(result.body_filled)

\* C12 (as the code has it): one paragraph per line of the resolved body,
\* in order, a line break at the very end of the text ending the last line
\* without opening another: the empty text gives no paragraph, and of n
\* line breaks at the end of a text the last gives no blank paragraph.
C12_ParagraphPerTerminatedLine ==
    (pc = "returned" /\ ~result.raised) =>
        BodyLineTexts(args, result.content) = TerminatedLines(result.body_filled)

\* A letter whose resolved body ends with two line breaks has been
\* composed: the first gives a blank paragraph, the second none.
C12_Witness ==
    /\ pc = "returned"
    /\ ~result.raised
    /\ LET t == result.body_filled
           lines == BodyLineTexts(args, result.content)
       IN  /\ Len(t) > 2
           /\ t[Len(t)] = "\n" /\ t[Len(t) - 1] = "\n"
           /\ Len(lines) = Cardinality(Breaks(t))
           /\ lines[Len(lines)] = <<>>

(***************************************************************************)
(* Properties of add_banner_to_header_footer in inset mode (SpecCompose).  *)
(***************************************************************************)
\* The six lengths of a section that banner insertion reads and writes.
Geometry(sect) ==
    <<sect.left_margin, sect.right_margin, sect.top_margin,
      sect.bottom_margin, sect.header_distance, sect.footer_distance>>

ContentWidth(sect) == sect.page_width - sect.left_margin - sect.right_margin

\* Sections as a document can hold them: the blank document's, and that
\* section with other margins and distances.
InsetSections ==
    {DefaultSection} \cup
    { set_distances(set_section_margins(DefaultSection, m.left, m.right,
                                        m.top, m.bottom), d, d) :
        m \in MarginChoices, d \in {0, 50} }

\* C13: in inset mode (edge_to_edge false) every inserted banner is as wide
\* as the content (page width less the left and right margins), and the
\* four margins and the header and footer distances after
\* add_banner_to_header_footer equal their values before the call: in the
\* letter composed, and for the call on any section of InsetSections with
\* the same arguments.
C13_InsetFrame ==
    (pc = "returned" /\ args.variant = "en" /\ ~args.edge_to_edge) =>
        /\ ~result.raised =>
            LET doc == result.content
            IN  /\ Geometry(doc.sect) = Geometry(Document.sect)
                /\ doc.sect.page_width = Document.sect.page_width
                /\ \A i \in 1..Len(doc.header) :
                        doc.header[i].width = ContentWidth(Document.sect)
                /\ \A i \in 1..Len(doc.footer) :
                        doc.footer[i].width = ContentWidth(Document.sect)
        /\ \A sect \in InsetSections :
            LET before == [Document EXCEPT !.sect = sect]
                after == add_banner_to_header_footer(before, args)
            IN  ~after.raised =>
                    /\ after.doc.sect = sect
                    /\ \A i \in 1..Len(after.doc.header) :
                            after.doc.header[i].width = ContentWidth(sect)
                    /\ \A i \in 1..Len(after.doc.footer) :
                            after.doc.footer[i].width = ContentWidth(sect)

\* An inset letter with a banner in the header and one in the footer, each
\* narrower than the page.
C13_Witness ==
    /\ pc = "returned"
    /\ args.variant = "en"
    /\ ~args.edge_to_edge
    /\ ~result.raised
    /\ Len(result.content.header) = 1
    /\ Len(result.content.footer) = 1
    /\ result.content.header[1].width < result.content.sect.page_width
    /\ result.content.sect.left_margin > 0

(***************************************************************************)
(* Properties of the banner sources (SpecCompose).                         *)
(***************************************************************************)
\* A payload that is an image: the empty payload is none.
IsImage(bytes) == bytes.given /\ bytes.data # <<>>

\* What a region holds for the bytes and the fallback file of its own edge.
SourceChosen(region, bytes, path_exists) ==
    IF bytes.given
    THEN /\ Len(region) = 1
         /\ region[1].source = "bytes"
         /\ region[1].data = bytes.data
    ELSE IF path_exists
    THEN Len(region) = 1 /\ region[1].source = "file"
    ELSE region = <<>>

\* C14: the banner source is selected for the top and for the bottom edge
\* independently: the bytes supplied for the edge are inserted; when none
\* are supplied the edge's fallback file is inserted if it exists; when
\* neither exists the region has no picture.  Composition completes
\* whenever no supplied payload fails to be an image: a missing banner is
\* never an error.
C14_BannerSource ==
    pc = "returned" =>
        /\ result.raised <=>
                \/ args.top_banner_bytes.given /\ ~IsImage(args.top_banner_bytes)
                \/ args.bottom_banner_bytes.given
                    /\ ~IsImage(args.bottom_banner_bytes)
        /\ ~result.raised =>
            /\ SourceChosen(result.content.header, args.top_banner_bytes,
                            args.top_exists)
            /\ SourceChosen(result.content.footer, args.bottom_banner_bytes,
                            args.bottom_exists)

\* A letter composed with top bytes supplied although the top fallback
\* file exists, and with neither bytes nor fallback file for the bottom:
\* the header holds the bytes, the footer nothing.
C14_Witness ==
    /\ pc = "returned"
    /\ ~result.raised
    /\ IsImage(args.top_banner_bytes)
    /\ args.top_exists
    /\ ~args.bottom_banner_bytes.given
    /\ ~args.bottom_exists
    /\ Len(result.content.header) = 1
    /\ result.content.header[1].source = "bytes"
    /\ result.content.footer = <<>>

(***************************************************************************)
(* Properties of the banner payload over a script run (Spec).              *)
(***************************************************************************)
\* A letter has been composed, or its composition raised, in this run.
LetterCalled == pc \in {"previewed", "idle", "batch", "batch_raised", "done"}

\* C15: in a run with a banner uploaded, every letter composition of the
\* run (the preview, then each row of the batch) receives the same
\* complete, non-empty payload: the bytes of the uploaded file.  Obtaining
\* the bytes for one letter changes nothing for a later one, and no letter
\* is composed with an empty payload.
C15_SamePayloadEveryLetter ==
    (LetterCalled /\ top_banner_file.given) =>
        /\ args.top_banner_bytes.given
        /\ args.top_banner_bytes.data = top_banner_file.data
        /\ args.top_banner_bytes.data # <<>>
====
